---- MODULE Spec2Model ----
(***************************************************************************)
(* Model of trollduction/producer.py: the message loop of                  *)
(* Trollduction.run_single, DataProcessor.run with its barrier on          *)
(* prod_queue, and the DataWriter thread with link_or_copy.                *)
(*                                                                         *)
(* Spec    : producer thread + writer thread + an external caller of       *)
(*           Trollduction.stop().  Batches come from DataWriter.write.     *)
(* SpecSeq : producer thread + writer thread on a sequence of messages,    *)
(*           with nobody calling stop().                                   *)
(* FairSpec: Spec with the threads scheduled fairly.                       *)
(* SpecW   : the DataWriter thread alone, draining batches of several      *)
(*           output items that were put on prod_queue.                     *)
(* SpecCov : calls of covers() on pairs of thresholds for one area.        *)
(* SpecMode: the file mode DataWriter.run computes from the umask.         *)
(* SpecReq : calls of get_req_channels on lists of products.               *)
(* SpecSat : calls of check_satellite on product nodes.                    *)
(* SpecPoly: calls of get_polygons_positions on masks.                     *)
(***************************************************************************)
EXTENDS Integers, Sequences, FiniteSets, TLC

(***************************************************************************)
(* Bounds                                                                  *)
(***************************************************************************)
MaxSpecs == 3       \* longest file_items list of a batch in SpecW
MaxMsgs == 3        \* messages received by run_single in SpecSeq
MaxStopMsgs == 1    \* messages received by run_single in Spec
MaxProducts == 4    \* longest list of products given to get_req_channels
MaxRows == 4        \* rows of the mask given to get_polygons_positions
MaxCols == 3        \* columns of the mask
MaxFreq == 2        \* largest frequency given to get_polygons_positions

(***************************************************************************)
(* Output items (xml nodes of the product configuration)                   *)
(***************************************************************************)
Dirs == {"d1", "d2"}
Texts == {"a.png", "a.tif"}
Formats == {"", "png"}          \* "" : the item has no 'format' attribute
\* file contents: no file, the file of an earlier pass, or a rendering
NoFile == [obj |-> <<0, 0, 0>>, fformat |-> "nofile"]
OldContent == [obj |-> <<0, 0, 0>>, fformat |-> "old"]

\* an output item: attrib["output_dir"] (or params["output_dir"]),
\* item.text and attrib.get("format")
Items == [dir : Dirs, text : Texts, format : Formats]

\* os.path.splitext(item.text)[1][1:]
Ext(text) == IF text = "a.png" THEN "png" ELSE "tif"

\* compose(os.path.join(output_dir, copy.text), local_params)
Fname(item) == <<item.dir, item.text>>

Paths == Dirs \X Texts

\* the directory where an earlier pass may have left a file
OldDir == "d2"

\* os.path.basename(fname)
Basename(fname) == fname[2]

\* a key that ignores the 'format' attribute
ItemKey_ExtOnly(item) == Ext(item.text)

\* key = tuple(sorted(attrib.items())) after deleting output_dir and the
\* thumbnail attributes and defaulting 'format' from the extension
ItemKey(item) == IF item.format = "" THEN Ext(item.text) ELSE item.format

\* sorted_items.setdefault(key, []).append(item)
SortedItems(file_items) ==
    LET keys == {ItemKey(file_items[i]) : i \in DOMAIN file_items}
    IN [k \in keys |-> SelectSeq(file_items, LAMBDA it : ItemKey(it) = k)]

\* what obj.save writes
Rendering(obj, fformat) == [obj |-> obj, fformat |-> fformat]

(***************************************************************************)
(* State                                                                   *)
(***************************************************************************)
VARIABLES
    \* DataWriter
    prod_queue,     \* Queue.Queue(): the queued (obj, file_items, params)
    unfinished,     \* Queue.unfinished_tasks, what join() waits for
    wloop,          \* DataWriter._loop
    wpc,            \* position of the writer thread in DataWriter.run
    w_obj,          \* obj of the batch being written
    w_items,        \* file_items of the batch being written
    w_groups,       \* sorted_items entries not yet iterated
    w_copies,       \* copies of the current entry not yet iterated
    w_fformat,      \* fformat of the current entry
    saved,          \* saved: False (NoPath) or the last file name
    uid,            \* uid, local of run() that survives from batch to batch
    fs,             \* the destination files: path -> content
    tmpfiles,       \* mkstemp files of the current batch still present
    published,      \* messages sent with pub.send for the current batch
    \* history of the writer, for the properties
    owed,           \* batches dequeued and not yet marked task_done
    save_calls,     \* obj.save calls for the current batch
    link_calls,     \* link_or_copy calls (from run) for the current batch
    placed,         \* destinations written by the current batch
    io_failed,      \* an I/O operation of the current batch failed
    aborted,        \* the except clause ran for the current batch
    \* Trollduction and DataProcessor (the producer thread)
    loop,           \* Trollduction._loop
    pc,             \* position of the producer thread in run_single / run
    msg,            \* the message being processed
    nmsgs,          \* messages received so far
    only_once,      \* td_config process_only_once is true
    previous_pass,  \* the dict self._previous_pass
    retried,        \* retried, local of run_single
    global_data,    \* DataProcessor.global_data: None or the scene
    data_ok,        \* DataProcessor._data_ok
    grp,            \* index of the group being processed
    ar,             \* index of the area being processed
    pr,             \* index of the product being processed
    skip,           \* skip: areas of the group with too little coverage
    spc,            \* position of the thread that calls Trollduction.stop()
    \* history of the producer, for the properties
    pre_attempt,    \* _previous_pass before the current message
    runs,           \* DataProcessor.run calls for the current message
    gave_up,        \* the current message failed on the retry too
    exc,            \* an exception is propagating out of run_single
    prev_id,        \* identity of the previous accepted message
    ran_ids,        \* identities of earlier messages that were run
    dup_of_prev,    \* the current message repeats the previous accepted one
    dup_of_any,     \* the current message repeats an earlier run message
    last_msg,       \* the message received last, accepted or not
    reloaded,       \* update_product_config was called for the current message
    params,         \* params of draw_images / of the dump: the node it was built for
    do_generic_coverage, \* do_generic_coverage, local of DataProcessor.run
    excluded,       \* (group, area) pairs covers() returned False for, in this run
    load_calls,     \* groups global_data.load was called for, in this run
    projected,      \* (group, area) pairs global_data.project was called for
    unloads,        \* calls of global_data.unload in this run
    enqueued,       \* products put on the queue for the message in hand
    \* a call of a function on its own (SpecCov, SpecMode, SpecReq, SpecSat,
    \* SpecPoly)
    cq,             \* the arguments
    ca              \* what the calls returned

wvars == <<prod_queue, unfinished, wloop, wpc, w_obj, w_items, w_groups,
           w_copies, w_fformat, saved, uid, fs, tmpfiles, published,
           owed, save_calls, link_calls, placed,
           io_failed, aborted>>

pvars == <<loop, pc, msg, nmsgs, only_once, previous_pass, retried,
           global_data, data_ok, grp, ar, pr, skip, spc, pre_attempt, runs,
           gave_up, exc, prev_id, ran_ids, dup_of_prev, dup_of_any,
           last_msg,
           reloaded,
           params,
           do_generic_coverage,
           excluded,
           load_calls,
           projected,
           unloads,
           enqueued>>

cvars == <<cq, ca>>

vars == <<wvars, pvars, cvars>>

NoPath == <<>>
NoUid == "nouid"
EmptyGroups == [k \in {} |-> <<>>]

(***************************************************************************)
(* link_or_copy(src, dst, tmpdst, retry): the set of possible results.     *)
(* os.link fails with ENOENT when src is missing and EEXIST when dst       *)
(* exists; EXDEV is possible only between different directories.           *)
(***************************************************************************)
RECURSIVE link_or_copy(_, _, _, _)
link_or_copy(src, dst, retry, f) ==
    LET nothing(n) == [fs |-> f, tmpgone |-> FALSE, ok |-> FALSE, tries |-> n]
        done(n) == [fs |-> [f EXCEPT ![dst] = f[src]], tmpgone |-> TRUE,
                    ok |-> TRUE, tries |-> n]
        again == IF retry > 0
                 THEN {[r EXCEPT !.tries = r.tries + 1] :
                           r \in link_or_copy(src, dst, retry - 1, f)}
                 ELSE {nothing(1)}
    IN IF src = dst THEN {nothing(0)}
       ELSE IF f[src] = NoFile \/ f[dst] # NoFile THEN {nothing(0)}
       ELSE {done(0), nothing(0)}                     \* linked / not EXDEV
            \cup (IF src[1] # dst[1]
                  THEN {done(1), nothing(1)} \cup again \* EXDEV: copy
                  ELSE {})

DefaultRetry == 1

(***************************************************************************)
(* DataWriter.run                                                          *)
(***************************************************************************)
\* a worker that does not look at its loop flag
WCheckLoop_Forever ==
    /\ UNCHANGED <<pvars, cvars>>
    /\ wpc = "loop"
    /\ wpc' = "get"
    /\ UNCHANGED <<prod_queue, unfinished, wloop, w_obj, w_items, w_groups,
                   w_copies, w_fformat, saved, uid, fs, tmpfiles, published,
                   owed, save_calls, link_calls, placed,
                   io_failed, aborted>>

\* while self._loop:
WCheckLoop ==
    /\ UNCHANGED <<pvars, cvars>>
    /\ wpc = "loop"
    /\ wpc' = IF wloop THEN "get" ELSE "exit"
    /\ UNCHANGED <<prod_queue, unfinished, wloop, w_obj, w_items, w_groups,
                   w_copies, w_fformat, saved, uid, fs, tmpfiles, published,
                   owed, save_calls, link_calls, placed,
                   io_failed, aborted>>

\* self.prod_queue.get(True, 1) raises Queue.Empty: continue
WEmpty ==
    /\ UNCHANGED <<pvars, cvars>>
    /\ wpc = "get"
    /\ prod_queue = <<>>
    /\ wpc' = "loop"
    /\ UNCHANGED <<prod_queue, unfinished, wloop, w_obj, w_items, w_groups,
                   w_copies, w_fformat, saved, uid, fs, tmpfiles, published,
                   owed, save_calls, link_calls, placed,
                   io_failed, aborted>>

\* obj, file_items, params = self.prod_queue.get(True, 1), then the
\* sorting of the file items in categories
WGet ==
    /\ UNCHANGED <<pvars, cvars>>
    /\ wpc = "get"
    /\ prod_queue # <<>>
    /\ prod_queue' = Tail(prod_queue)
    /\ w_obj' = Head(prod_queue).obj
    /\ w_items' = Head(prod_queue).items
    /\ w_groups' = SortedItems(Head(prod_queue).items)
    /\ w_copies' = <<>>
    /\ wpc' = "copies"
    /\ owed' = owed + 1
    /\ UNCHANGED <<unfinished, wloop, w_fformat, saved, uid, fs,
                   tmpfiles, published, save_calls, link_calls, placed,
                   io_failed, aborted>>

\* for item, copies in sorted_items.items(): the next entry, in the
\* arbitrary order of a dict; saved = False
WNextGroup ==
    /\ UNCHANGED <<pvars, cvars>>
    /\ wpc = "copies"
    /\ w_copies = <<>>
    /\ \E k \in DOMAIN w_groups :
          /\ w_copies' = w_groups[k]
          /\ w_fformat' = k
          /\ w_groups' = [j \in DOMAIN w_groups \ {k} |-> w_groups[j]]
    /\ saved' = NoPath
    /\ UNCHANGED <<prod_queue, unfinished, wloop, wpc, w_obj, w_items, uid,
                   fs, tmpfiles, published, owed, save_calls,
                   link_calls, placed, io_failed, aborted>>

\* where the thread is after the current copy has been handled
AfterCopy == IF Len(w_copies) = 1 /\ DOMAIN w_groups = {}
             THEN "finally" ELSE "copies"

\* the message sent for fname
Announcement(fname, u) == [uri |-> fname, uid |-> u]

\* thumbnail(fname, ...) when the copy has thumbnail_name and
\* thumbnail_size: "none" (no thumbnail asked), "ok", "exc" (it raises;
\* Image.open raises when fname does not exist)
ThumbOutcomes(f, fname) ==
    IF f[fname] = NoFile THEN {"none", "exc"} ELSE {"none", "ok", "exc"}

\* a save sequence without the retry
SaveCalls_NoRetry(o) == CASE o = "ok" -> 1
                          [] o = "retry_ok" -> 2
                          [] o = "fail" -> 1
                          [] OTHER -> 0

\* number of obj.save calls for an outcome of the save sequence
SaveCalls(o) == CASE o = "ok" -> 1
                  [] o = "retry_ok" -> 2
                  [] o = "fail" -> 2
                  [] OTHER -> 0

SaveOutcomes == {"mkstemp_exc", "ok", "retry_ok", "fail"}

\* one iteration of "for copy in copies" with saved false: mkstemp,
\* obj.save (retried once on IOError), os.rename, thumbnail, pub.send
WSave ==
    /\ UNCHANGED <<pvars, cvars>>
    /\ wpc = "copies"
    /\ w_copies # <<>>
    /\ saved = NoPath
    /\ LET fname == Fname(Head(w_copies)) IN
       \E o \in SaveOutcomes :
         LET renamed == o \in {"ok", "retry_ok"}
             fs1 == IF renamed
                    THEN [fs EXCEPT ![fname] = Rendering(w_obj, w_fformat)]
                    ELSE fs
         IN \E t \in (IF renamed THEN ThumbOutcomes(fs1, fname) ELSE {"none"}) :
            LET abort == o = "mkstemp_exc" \/ t = "exc" IN
            /\ fs' = fs1
            /\ save_calls' = save_calls + SaveCalls(o)
            /\ tmpfiles' = tmpfiles + (IF o = "fail" THEN 1 ELSE 0)
            /\ saved' = IF renamed THEN fname ELSE saved
            /\ uid' = IF renamed THEN Basename(fname) ELSE uid
            /\ placed' = IF renamed THEN placed \cup {fname} ELSE placed
            /\ io_failed' = (io_failed \/ o # "ok" \/ t = "exc")
            /\ aborted' = abort
            /\ published' = IF renamed /\ ~abort
                            THEN Append(published,
                                        Announcement(fname, Basename(fname)))
                            ELSE published
            /\ w_copies' = IF abort THEN w_copies ELSE Tail(w_copies)
            /\ wpc' = IF abort THEN "finally" ELSE AfterCopy
    /\ UNCHANGED <<prod_queue, unfinished, wloop, w_obj, w_items, w_groups,
                   w_fformat, owed, link_calls>>

\* one iteration of "for copy in copies" with saved set: mkstemp,
\* link_or_copy(saved, fname, tempname), saved = fname, thumbnail, pub.send
WLink ==
    /\ UNCHANGED <<pvars, cvars>>
    /\ wpc = "copies"
    /\ w_copies # <<>>
    /\ saved # NoPath
    /\ LET fname == Fname(Head(w_copies)) IN
       \/ \* mkstemp raises
          /\ aborted' = TRUE
          /\ wpc' = "finally"
          /\ io_failed' = TRUE
          /\ UNCHANGED <<fs, tmpfiles, saved, placed, published, w_copies,
                         link_calls>>
       \/ \E r \in link_or_copy(saved, fname, DefaultRetry, fs) :
          \E t \in ThumbOutcomes(r.fs, fname) :
            /\ fs' = r.fs
            /\ link_calls' = link_calls + 1
            /\ tmpfiles' = tmpfiles + (IF r.tmpgone THEN 0 ELSE 1)
            /\ saved' = fname
            /\ placed' = IF r.ok THEN placed \cup {fname} ELSE placed
            /\ io_failed' = (io_failed \/ ~r.ok \/ t = "exc")
            /\ aborted' = (t = "exc")
            /\ published' = IF t # "exc"
                            THEN Append(published, Announcement(fname, uid))
                            ELSE published
            /\ w_copies' = IF t = "exc" THEN w_copies ELSE Tail(w_copies)
            /\ wpc' = IF t = "exc" THEN "finally" ELSE AfterCopy
    /\ UNCHANGED <<prod_queue, unfinished, wloop, w_obj, w_items, w_groups,
                   w_fformat, uid, owed, save_calls>>

\* a writer that marks the batch done in the else branch only: not when
\* the except clause ran
WTaskDone_ElseOnly ==
    /\ UNCHANGED <<pvars, cvars>>
    /\ wpc = "finally"
    /\ unfinished' = IF aborted THEN unfinished ELSE unfinished - 1
    /\ owed' = IF aborted THEN owed ELSE owed - 1
    /\ wpc' = "loop"
    /\ w_obj' = <<0, 0, 0>>
    /\ w_items' = <<>>
    /\ w_groups' = EmptyGroups
    /\ w_copies' = <<>>
    /\ w_fformat' = ""
    /\ saved' = NoPath
    /\ tmpfiles' = 0
    /\ published' = <<>>
    /\ save_calls' = 0
    /\ link_calls' = 0
    /\ placed' = {}
    /\ io_failed' = FALSE
    /\ aborted' = FALSE
    /\ UNCHANGED <<prod_queue, wloop, uid, fs>>

\* finally: self.prod_queue.task_done().  The locals of the finished
\* batch are dead and the history of the batch starts afresh.
WTaskDone ==
    /\ UNCHANGED <<pvars, cvars>>
    /\ wpc = "finally"
    /\ unfinished' = unfinished - 1
    /\ owed' = owed - 1
    /\ wpc' = "loop"
    /\ w_obj' = <<0, 0, 0>>
    /\ w_items' = <<>>
    /\ w_groups' = EmptyGroups
    /\ w_copies' = <<>>
    /\ w_fformat' = ""
    /\ saved' = NoPath
    /\ tmpfiles' = 0
    /\ published' = <<>>
    /\ save_calls' = 0
    /\ link_calls' = 0
    /\ placed' = {}
    /\ io_failed' = FALSE
    /\ aborted' = FALSE
    /\ UNCHANGED <<prod_queue, wloop, uid, fs>>

(***************************************************************************)
(* Messages and the product configuration                                  *)
(***************************************************************************)
None == "None"
Missing == "missing"            \* the key is not in msg.data

\* (platform_name, start_time) of the messages; Missing: no such key
Idents == {<<"p1", "t1">>, <<"p2", "t2">>, <<"p2", Missing>>,
           <<Missing, "t1">>}

Message(type, sensor_ok, ident, area_id) ==
    [type |-> type, sensor_ok |-> sensor_ok, platform_name |-> ident[1],
     start_time |-> ident[2], collection_area_id |-> area_id]

\* msg.type, whether msg.data['sensor'] meets td_config['instruments'],
\* msg.data['platform_name'], msg.data['start_time'] and, for a collection,
\* msg.data['collection_area_id'].  "file" stands for file and dataset
\* messages, which differ in the form of the uri only.
Messages ==
    {Message("file", TRUE, i, None) : i \in Idents}
    \cup {Message("collection", TRUE, <<"p1", "t1">>, a) : a \in {"a1", "zz"}}
    \cup {Message("ack", TRUE, <<"p1", "t1">>, None),
          Message("file", FALSE, <<"p1", "t1">>, None)}

NoMsg == Message("ack", FALSE, <<Missing, Missing>>, None)

\* the product configuration file: a top-level dump entry and two groups.
\* The second area of each group has no product; the second group asks
\* for the channels to be unloaded before and after it.
\* A product node: its output item and its invalid_satellite list.
Product(invalid) ==
    [tag |-> "product", invalid_satellite |-> invalid,
     item |-> [dir |-> "d1", text |-> "a.png", format |-> ""]]

ProductConfig ==
    [dump |-> <<[dir |-> "d1", text |-> "a.png", format |-> ""]>>,
     groups |-> <<
        [unload |-> FALSE,
         areas |-> <<[id |-> "a1", min_coverage |-> 50,
                      products |-> <<Product({}), Product({"p2"})>>],
                     [id |-> "a2", min_coverage |-> 0,
                      products |-> <<>>]>>],
        [unload |-> TRUE,
         areas |-> <<[id |-> "a3", min_coverage |-> 50,
                      products |-> <<Product({})>>],
                     [id |-> "a4", min_coverage |-> 50,
                      products |-> <<>>]>>]>>]

Groups == ProductConfig.groups

\* overpass.area_coverage(area_def), in percent
Coverages == {20, 50, 80}

\* self.global_data: None, or the scene with its overpass (None or a Pass)
NoScene == [present |-> FALSE, overpass |-> None]
Scene(orbit) == [present |-> TRUE, overpass |-> orbit]

\* get_area_def_names(group)
get_area_def_names(areas) == {areas[i].id : i \in DOMAIN areas}

AllAreas == UNION {get_area_def_names(Groups[g].areas) : g \in DOMAIN Groups}

\* a test that excludes the areas with at least the minimum coverage
covers_Inverted(overpass, min_coverage, coverage) ==
    IF min_coverage = 0 \/ overpass = None THEN TRUE
    ELSE IF coverage >= min_coverage THEN FALSE
    ELSE TRUE

\* covers(overpass, area_item) with the coverage the overpass gives
covers(overpass, min_coverage, coverage) ==
    IF min_coverage = 0 \/ overpass = None THEN TRUE
    ELSE IF coverage <= min_coverage THEN FALSE
    ELSE TRUE

\* what a call of covers() gives: get_area_def raises AreaNotFound for an
\* area id that is not defined; an AttributeError from
\* overpass.area_coverage is caught and True returned
covers_result(defined, attr_err, overpass, min_coverage, coverage) ==
    IF ~defined THEN "AreaNotFound"
    ELSE IF min_coverage = 0 \/ overpass = None THEN "True"
    ELSE IF attr_err THEN "True"
    ELSE IF covers(overpass, min_coverage, coverage) THEN "True"
    ELSE "False"

\* generic_covers(scene, area_item) with the coverage the scene gives
generic_covers(min_coverage, cov) ==
    IF min_coverage = 0 THEN TRUE
    ELSE IF cov <= min_coverage THEN FALSE
    ELSE TRUE

\* self.global_data.overpass (line 582) raises AttributeError when
\* global_data is None; a scene made by create_scene_from_mda always has
\* the attribute
overpass_raises(scene) == ~scene.present

\* lines 580-591: DataProcessor.run sets do_generic_coverage in its
\* 'except AttributeError' clause only, when the call of covers raised it
flags_generic_coverage(result) == result = "AttributeError"

\* area_item.attrib.get('min_coverage', 0), in percent
MinCoverages == {0, 20, 50, 80}

\* the arguments of two calls of covers() that differ in min_coverage only
CovQueries ==
    [defined : BOOLEAN, attr_err : BOOLEAN, overpass : {None, "Pass"},
     m1 : MinCoverages, m2 : MinCoverages, coverage : Coverages]

NoQuery == [defined |-> TRUE, attr_err |-> FALSE, overpass |-> None,
            m1 |-> 0, m2 |-> 0, coverage |-> 20]
NoAnswer == <<>>

\* int('666', 8)
Mode666 == 438

\* the values of the process umask
Umasks == 0 .. 511

\* default_mode = int('666', 8) - umask, the mode given to os.chmod
default_mode(umask) == Mode666 - umask

\* a & b on naturals
RECURSIVE BitAnd(_, _)
BitAnd(a, b) ==
    IF a = 0 \/ b = 0 THEN 0
    ELSE (a % 2) * (b % 2) + 2 * BitAnd(a \div 2, b \div 2)

ModeQueries == [umask : Umasks]

\* umask = os.umask(0); os.umask(umask); default_mode = ...
ModeCall ==
    /\ ca = NoAnswer
    /\ ca' = <<default_mode(cq.umask)>>
    /\ UNCHANGED <<wvars, pvars, cq>>

\* a product node as get_req_channels sees it: a dump, a product whose id
\* is an attribute of global_data.image, or a product whose id is not
ProductKinds == {"dump", "known", "unknown"}

\* get_req_channels from the product i on; bound tells whether the local
\* 'composite' has been assigned, reqs is the set collected so far (the
\* prerequisites of the product i are written {i}).  In the except clause
\* type(composite) is evaluated: UnboundLocalError when composite was
\* never assigned.
RECURSIVE req_loop(_, _, _, _)
req_loop(products, i, bound, reqs) ==
    IF i > Len(products) THEN [exc |-> "", none |-> FALSE, reqs |-> reqs]
    ELSE IF products[i] = "dump" THEN [exc |-> "", none |-> TRUE, reqs |-> {}]
    ELSE IF products[i] = "known"
         THEN req_loop(products, i + 1, TRUE, reqs \cup {i})
    ELSE IF bound THEN req_loop(products, i + 1, bound, reqs)
    ELSE [exc |-> "UnboundLocalError", none |-> FALSE, reqs |-> {}]

\* get_req_channels(products)
get_req_channels(products) == req_loop(products, 1, FALSE, {})

ReqQueries ==
    [products : UNION {[1 .. n -> ProductKinds] : n \in 0 .. MaxProducts}]

ReqCall ==
    /\ ca = NoAnswer
    /\ ca' = <<get_req_channels(cq.products)>>
    /\ UNCHANGED <<wvars, pvars, cq>>

\* global_data.info['platform_name']
Platforms == {"p1", "p2", "p3"}

\* a product node: the attributes it has among valid_satellite and
\* invalid_satellite, and the satellites each of them lists
SatConfigs ==
    [keys : SUBSET {"valid_satellite", "invalid_satellite"},
     valid_satellite : SUBSET Platforms,
     invalid_satellite : SUBSET Platforms]

\* check_satellite(config): for a node with valid_satellite the test is
\* 'platform not in + config.attrib[...]', a unary plus on a string, which
\* raises TypeError
check_satellite_result(platform, config) ==
    IF "valid_satellite" \in config.keys THEN "TypeError"
    ELSE IF "invalid_satellite" \in config.keys
            /\ platform \in config.invalid_satellite THEN "False"
    ELSE "True"

SatQueries == [platform : Platforms, config : SatConfigs]

SatCall ==
    /\ ca = NoAnswer
    /\ ca' = <<check_satellite_result(cq.platform, cq.config)>>
    /\ UNCHANGED <<wvars, pvars, cq>>

\* np.nonzero(1 - mask[line, :])[0]: the valid columns of a row, in
\* ascending order.  A row of the mask is written as the set of its valid
\* columns.
RECURSIVE nonzero(_)
nonzero(row) ==
    IF row = {} THEN <<>>
    ELSE LET m == CHOOSE x \in row : \A y \in row : x <= y
         IN <<m>> \o nonzero(row \ {m})

\* the elements of seq at the positions first, first + step, ... up to
\* last: seq[1::step] is EveryNth(seq, 2, Len(seq), step) and
\* seq[1:-1:step] is EveryNth(seq, 2, Len(seq) - 1, step)
EveryNth(seq, first, last, step) ==
    LET n == IF last < first THEN 0 ELSE (last - first) \div step + 1
    IN [k \in 1 .. n |-> seq[first + (k - 1) * step]]

\* list.reverse()
Reverse(seq) == [k \in 1 .. Len(seq) |-> seq[Len(seq) + 1 - k]]

\* the points (line, indice) for the indices of a list
Points(line, indices) == [k \in 1 .. Len(indices) |-> <<line, indices[k]>>]

\* the locals of get_polygons_positions before its loop; last_valid_line
\* 0 stands for None (the lines are numbered from 1)
PolyStart ==
    [polygons |-> <<>>, polygon_left |-> <<>>, polygon_right |-> <<>>,
     count |-> 0, last_valid_line |-> 0, indices |-> <<>>]

\* one iteration of 'for line in range(mask.shape[0])'
PolyLine(mask, frequency, st, line) ==
    IF mask[line] = {} THEN st
    ELSE
      LET indices == nonzero(mask[line])
          lvl == st.last_valid_line
      IN IF lvl # 0 /\ lvl # line - 1
         THEN \* close the polygon and start a new one
           LET last_indices == nonzero(mask[lvl])
               again == st.count % frequency # 0
               right1 == IF again
                         THEN Append(st.polygon_right,
                                     <<lvl, last_indices[Len(last_indices)]>>)
                         ELSE st.polygon_right
               left1 == IF again
                        THEN Append(st.polygon_left, <<lvl, last_indices[1]>>)
                        ELSE st.polygon_left
               left2 == left1 \o
                          Points(lvl, EveryNth(last_indices, 2,
                                               Len(last_indices) - 1,
                                               frequency))
           IN [polygons |-> Append(st.polygons, Reverse(left2) \o right1),
               polygon_left |-> << <<line, indices[1]>> >>,
               polygon_right |->
                   Points(line, EveryNth(indices, 2, Len(indices), frequency)),
               count |-> 1,
               last_valid_line |-> line,
               indices |-> indices]
         ELSE IF st.count % frequency = 0
         THEN [st EXCEPT
                 !.polygon_left = Append(@, <<line, indices[1]>>),
                 !.polygon_right = Append(@, <<line, indices[Len(indices)]>>),
                 !.count = @ + 1,
                 !.last_valid_line = line,
                 !.indices = indices]
         ELSE [st EXCEPT !.count = @ + 1,
                         !.last_valid_line = line,
                         !.indices = indices]

\* the loop over the lines from the line 'line' on
RECURSIVE PolyLoop(_, _, _, _)
PolyLoop(mask, frequency, st, line) ==
    IF line > Len(mask) THEN st
    ELSE PolyLoop(mask, frequency, PolyLine(mask, frequency, st, line),
                  line + 1)

\* get_polygons_positions(datas, frequency) for the mask of the datas
get_polygons_positions(mask, frequency) ==
    LET st == PolyLoop(mask, frequency, PolyStart, 1)
        last == (st.count - 1) % frequency # 0 /\ st.last_valid_line # 0
        left == IF last
                THEN Append(st.polygon_left,
                            <<st.last_valid_line, st.indices[1]>>)
                ELSE st.polygon_left
        right == IF last
                 THEN Append(st.polygon_right,
                             <<st.last_valid_line,
                               st.indices[Len(st.indices)]>>)
                 ELSE st.polygon_right
        result == Reverse(left) \o right
    IN IF result # <<>> THEN Append(st.polygons, result) ELSE st.polygons

\* the masks: up to MaxRows rows of MaxCols columns
Masks == UNION {[1 .. n -> SUBSET (1 .. MaxCols)] : n \in 0 .. MaxRows}

PolyQueries == [mask : Masks, frequency : 1 .. MaxFreq]

PolyCall ==
    /\ ca = NoAnswer
    /\ ca' = <<get_polygons_positions(cq.mask, cq.frequency)>>
    /\ UNCHANGED <<wvars, pvars, cq>>

\* covers(overpass, area_item) for the area with min_coverage m1 and with
\* min_coverage m2
CoversCall ==
    /\ ca = NoAnswer
    /\ ca' = <<covers_result(cq.defined, cq.attr_err, cq.overpass, cq.m1,
                             cq.coverage),
               covers_result(cq.defined, cq.attr_err, cq.overpass, cq.m2,
                             cq.coverage)>>
    /\ UNCHANGED <<wvars, pvars, cq>>

(***************************************************************************)
(* Trollduction.run_single                                                 *)
(***************************************************************************)
NoId == <<>>
HasId(m) == m.platform_name # Missing /\ m.start_time # Missing
Id(m) == <<m.platform_name, m.start_time>>

\* a filter that does not look at the type of the message
Accepted_AnyType(m) == m.sensor_ok

\* msg.type in ["file", 'collection', 'dataset'] and
\* sensors.intersection(self.td_config['instruments'].split(','))
Accepted(m) == m.type \in {"file", "collection"} /\ m.sensor_ok

\* the test of lines 1362-1368; a missing key raises KeyError, which makes
\* the message be processed
AlreadyProcessed(pp, m, once) ==
    /\ once
    /\ m.platform_name # Missing
    /\ pp.platform_name = m.platform_name
    /\ m.start_time # Missing
    /\ pp.start_time = m.start_time

\* an update that records the platform name only
set_previous_pass_PlatformOnly(pp, m) ==
    IF m.platform_name = Missing THEN pp
    ELSE [pp EXCEPT !.platform_name = m.platform_name]

\* the two assignments of lines 1373-1376 (and 1378-1381); KeyError on a
\* missing key ends them
set_previous_pass(pp, m) ==
    IF m.platform_name = Missing THEN pp
    ELSE IF m.start_time = Missing
         THEN [pp EXCEPT !.platform_name = m.platform_name]
         ELSE [platform_name |-> m.platform_name, start_time |-> m.start_time]

\* prev_pass = self._previous_pass binds the local name to the same dict
\* object: what it reads is the dict's current content
prev_pass == previous_pass

\* the producer's params before any was built
NoParams == <<0, 0, 0>>

\* a queue entry that holds the caller's own dict
params_copy_Alias(prm) == [own |-> FALSE, val |-> prm]

\* params.copy(): a dict of its own with the keys and values of the moment
params_copy(prm) == [own |-> TRUE, val |-> prm]

\* a put at the front of the queue
write_Front(obj, item, prm) ==
    /\ prod_queue' = <<[obj |-> obj, items |-> <<item>>,
                        params |-> params_copy(prm)]>> \o prod_queue
    /\ unfinished' = unfinished + 1

\* a write that queues the item twice in one batch
write_Pair(obj, item, prm) ==
    /\ prod_queue' = Append(prod_queue, [obj |-> obj, items |-> <<item, item>>,
                                         params |-> params_copy(prm)])
    /\ unfinished' = unfinished + 1

\* self.prod_queue.put((obj, l, params.copy())) of DataWriter.write; the
\* queue has no maxsize and put does not wait
write(obj, item, prm) ==
    /\ prod_queue' = Append(prod_queue, [obj |-> obj, items |-> <<item>>,
                                         params |-> params_copy(prm)])
    /\ unfinished' = unfinished + 1

wrest == <<w_obj, w_items, w_groups, w_copies, w_fformat, saved, uid, fs,
           tmpfiles, published, owed, save_calls, link_calls, placed,
           io_failed, aborted, wpc>>

\* while self._loop: the next iteration starts.  What the finished
\* iteration left in msg, retried, _data_ok and the loop indices is dead
\* (each is assigned before it is read again), and the history of the
\* message starts afresh.
PCheckLoop ==
    /\ pc = "loop"
    /\ pc' = IF loop THEN "get" ELSE "finally"
    /\ msg' = NoMsg
    /\ retried' = FALSE
    /\ data_ok' = TRUE
    /\ grp' = 1
    /\ ar' = 1
    /\ pr' = 1
    /\ skip' = {}
    /\ pre_attempt' = previous_pass
    /\ runs' = 0
    /\ gave_up' = FALSE
    /\ dup_of_prev' = FALSE
    /\ dup_of_any' = FALSE
    /\ params' = NoParams
    /\ do_generic_coverage' = FALSE
    /\ excluded' = {}
    /\ load_calls' = {}
    /\ projected' = {}
    /\ unloads' = 0
    /\ last_msg' = NoMsg
    /\ reloaded' = FALSE
    /\ enqueued' = {}
    /\ UNCHANGED <<cvars, wvars, loop, nmsgs, only_once, previous_pass,
                   global_data, spc, exc, prev_id, ran_ids>>

\* self.listener.queue.get(True, 5) raises Queue.Empty: continue
PEmpty ==
    /\ pc = "get"
    /\ pc' = "loop"
    /\ UNCHANGED <<cvars, enqueued, unloads, projected, load_calls, excluded,
                   do_generic_coverage, params, reloaded, last_msg, wvars,
                   loop, msg, nmsgs, only_once, previous_pass, retried,
                   global_data, data_ok, grp, ar, pr, skip, spc, pre_attempt,
                   runs, gave_up, exc, prev_id, ran_ids, dup_of_prev,
                   dup_of_any>>

\* KeyboardInterrupt in the get: self.stop(); raise
PInterrupt ==
    /\ pc = "get"
    /\ pc' = "finally"
    /\ exc' = TRUE
    /\ loop' = FALSE
    /\ wloop' = IF loop THEN FALSE ELSE wloop
    /\ UNCHANGED <<cvars, enqueued, unloads, projected, load_calls, excluded,
                   do_generic_coverage, params, reloaded, last_msg,
                   prod_queue, unfinished, wrest, msg, nmsgs, only_once,
                   previous_pass, retried, global_data, data_ok, grp, ar, pr,
                   skip, spc, pre_attempt, runs, gave_up, prev_id, ran_ids,
                   dup_of_prev, dup_of_any>>

\* a message arrives: the filter, the at-most-once test, the update of
\* _previous_pass and update_product_config (lines 1351-1390).  Every
\* message is taken to carry msg.data['sensor'].
PRecv(max) ==
    /\ pc = "get"
    /\ nmsgs < max
    /\ nmsgs' = nmsgs + 1
    /\ \E m \in Messages :
         /\ last_msg' = m
         /\ IF ~Accepted(m)
            THEN /\ pc' = "loop"
                 /\ UNCHANGED <<msg, previous_pass, retried, pre_attempt,
                                runs, gave_up, prev_id, dup_of_prev,
                                dup_of_any, reloaded>>
            ELSE
              /\ msg' = m
              /\ pre_attempt' = previous_pass
              /\ gave_up' = FALSE
              /\ runs' = 0
              /\ dup_of_prev' = (HasId(m) /\ prev_id = Id(m))
              /\ dup_of_any' = (HasId(m) /\ Id(m) \in ran_ids)
              /\ prev_id' = IF HasId(m) THEN Id(m) ELSE NoId
              /\ IF AlreadyProcessed(previous_pass, m, only_once)
                 THEN /\ pc' = "loop"
                      /\ UNCHANGED <<previous_pass, retried, reloaded>>
                 ELSE /\ previous_pass' = set_previous_pass(previous_pass, m)
                      /\ reloaded' = TRUE
                      /\ retried' = FALSE
                      /\ pc' = "run"
    /\ UNCHANGED <<cvars, enqueued, unloads, projected, load_calls, excluded,
                   do_generic_coverage, params, wvars, loop, only_once,
                   global_data, data_ok, grp, ar, pr, skip, spc, exc, ran_ids>>

(***************************************************************************)
(* DataProcessor.run                                                       *)
(***************************************************************************)
\* lines 500-554: the uri, check_uri, create_scene_from_message
PRunStart ==
    /\ pc = "run"
    /\ runs' = runs + 1
    /\ ran_ids' = IF HasId(msg) THEN ran_ids \cup {Id(msg)} ELSE ran_ids
    /\ \/ \* the collection is for no configured area, or check_uri raises
          \* IOError: return
          /\ pc' = "loop"
          /\ UNCHANGED <<global_data, data_ok, exc>>
       \/ /\ msg.type = "collection" => msg.collection_area_id \in AllAreas
          /\ \E orbit \in {None, "Pass"} :
               IF msg.platform_name = Missing
                  \/ (orbit = "Pass" /\ msg.start_time = Missing)
               THEN \* KeyError in create_scene_from_mda
                    /\ pc' = "finally"
                    /\ exc' = TRUE
                    /\ UNCHANGED <<global_data, data_ok>>
               ELSE /\ global_data' = Scene(orbit)
                    /\ data_ok' = TRUE
                    /\ pc' = "dump"
                    /\ UNCHANGED exc
    /\ UNCHANGED <<cvars, enqueued, unloads, projected, load_calls, excluded,
                   do_generic_coverage, params, reloaded, last_msg, wvars,
                   loop, msg, nmsgs, only_once, previous_pass, retried, grp,
                   ar, pr, skip, spc, pre_attempt, gave_up, prev_id,
                   dup_of_prev, dup_of_any>>

\* where run goes once the group grp is finished or skipped: the next
\* group, or the join after the last one
GroupDone ==
    /\ grp' = grp + 1
    /\ pc' = IF grp + 1 > Len(Groups) THEN "join" ELSE "group"
    /\ ar' = 1
    /\ pr' = 1
    /\ skip' = {}

\* self.global_data.unload(*loaded_channels) when the group has
\* unload="yes": the count of unload calls of the run
Unloads(g) == IF Groups[g].unload THEN unloads + 1 ELSE unloads

\* lines 667-672 and the end of the group: the unload after the group
AfterGroup ==
    /\ GroupDone
    /\ unloads' = Unloads(grp)

\* a loop over the areas that does not look at skip
NextArea_NoSkip(areas, skp, a) ==
    LET later == {i \in DOMAIN areas : i > a}
    IN IF later = {} THEN 0
       ELSE CHOOSE i \in later : \A j \in later : i <= j

\* the next area of the group that is not in skip, 0 when there is none
NextArea(areas, skp, a) ==
    LET later == {i \in DOMAIN areas : i > a /\ i \notin skp}
    IN IF later = {} THEN 0
       ELSE CHOOSE i \in later : \A j \in later : i <= j

\* a run in which a failed load for the dump entry marks the data as bad
PDump_Fatal ==
    /\ pc = "dump"
    /\ pc' = "group"
    /\ grp' = 1
    /\ \/ /\ params' = <<0, 0, 1>>
          /\ write(<<0, 0, 1>>, ProductConfig.dump[1], params')
          /\ UNCHANGED data_ok
       \/ /\ data_ok' = FALSE
          /\ UNCHANGED <<prod_queue, unfinished, params>>
    /\ UNCHANGED <<cvars, enqueued, unloads, projected, load_calls, excluded,
                   do_generic_coverage, reloaded, last_msg, wrest, wloop,
                   loop, msg, nmsgs, only_once, previous_pass, retried,
                   global_data, ar, pr, skip, spc, pre_attempt, runs,
                   gave_up, exc, prev_id, ran_ids, dup_of_prev, dup_of_any>>

\* lines 556-564: the top-level dump entries; a failed load is logged
PDump ==
    /\ pc = "dump"
    /\ pc' = "group"
    /\ grp' = 1
    /\ \/ /\ params' = <<0, 0, 1>>
          /\ write(<<0, 0, 1>>, ProductConfig.dump[1], params')
       \/ UNCHANGED <<prod_queue, unfinished, params>>
    /\ UNCHANGED <<cvars, enqueued, unloads, projected, load_calls, excluded,
                   do_generic_coverage, reloaded, last_msg, wrest, wloop,
                   loop, msg, nmsgs, only_once, previous_pass, retried,
                   global_data, data_ok, ar, pr, skip, spc, pre_attempt,
                   runs, gave_up, exc, prev_id, ran_ids, dup_of_prev,
                   dup_of_any>>

\* a run in which a failed load ends the group only: 'continue' in the
\* place of 'break'
PGroup_Continue ==
    /\ pc = "group"
    /\ LET areas == Groups[grp].areas IN
       IF msg.type = "collection"
          /\ msg.collection_area_id \notin get_area_def_names(areas)
       THEN /\ GroupDone
            /\ UNCHANGED <<data_ok, exc, do_generic_coverage, excluded,
                           load_calls, unloads>>
       ELSE \/ \* get_area_def raises AreaNotFound in covers
               /\ pc' = "finally"
               /\ exc' = TRUE
               /\ UNCHANGED <<grp, ar, pr, skip, data_ok,
                              do_generic_coverage, excluded, load_calls,
                              unloads>>
            \/ \E cov \in [DOMAIN areas -> Coverages] :
                 LET skp == IF overpass_raises(global_data) THEN {}
                            ELSE {i \in DOMAIN areas :
                                    ~covers(global_data.overpass,
                                            areas[i].min_coverage, cov[i])}
                     products ==
                         UNION {{<<i, j>> : j \in DOMAIN areas[i].products} :
                                   i \in (DOMAIN areas) \ skp}
                 IN /\ do_generic_coverage' = overpass_raises(global_data)
                    /\ excluded' = excluded \cup {<<grp, i>> : i \in skp}
                    /\ IF products = {} \/ skp = DOMAIN areas
                       THEN /\ GroupDone
                            /\ UNCHANGED <<data_ok, exc, load_calls, unloads>>
                       ELSE /\ unloads' = Unloads(grp)
                            /\ load_calls' = load_calls \cup {grp}
                            /\ \/ /\ data_ok' = FALSE
                                  /\ GroupDone
                                  /\ UNCHANGED exc
                               \/ /\ skip' = skp
                                  /\ ar' = NextArea(areas, skp, 0)
                                  /\ pc' = "area"
                                  /\ UNCHANGED <<grp, pr, data_ok, exc>>
    /\ UNCHANGED <<cvars, enqueued, projected, params, reloaded, last_msg,
                   wvars, loop, msg, nmsgs, only_once, previous_pass,
                   retried, global_data, spc, pre_attempt, runs, gave_up,
                   prev_id, ran_ids, dup_of_prev, dup_of_any>>

\* lines 566-622: one group up to the load of its channels: the coverage
\* of its areas, the unload asked for by the group, the load
PGroup ==
    /\ pc = "group"
    /\ LET areas == Groups[grp].areas IN
       IF msg.type = "collection"
          /\ msg.collection_area_id \notin get_area_def_names(areas)
       THEN /\ GroupDone
            /\ UNCHANGED <<data_ok, exc, do_generic_coverage, excluded,
                           load_calls, unloads>>
       ELSE \/ \* get_area_def raises AreaNotFound in covers
               /\ pc' = "finally"
               /\ exc' = TRUE
               /\ UNCHANGED <<grp, ar, pr, skip, data_ok,
                              do_generic_coverage, excluded, load_calls,
                              unloads>>
            \/ \E cov \in [DOMAIN areas -> Coverages] :
                 LET skp == IF overpass_raises(global_data) THEN {}
                            ELSE {i \in DOMAIN areas :
                                    ~covers(global_data.overpass,
                                            areas[i].min_coverage, cov[i])}
                     products ==
                         UNION {{<<i, j>> : j \in DOMAIN areas[i].products} :
                                   i \in (DOMAIN areas) \ skp}
                 IN /\ do_generic_coverage' = overpass_raises(global_data)
                    /\ excluded' = excluded \cup {<<grp, i>> : i \in skp}
                    /\ IF products = {} \/ skp = DOMAIN areas
                       THEN /\ GroupDone
                            /\ UNCHANGED <<data_ok, exc, load_calls, unloads>>
                       ELSE /\ unloads' = Unloads(grp)
                            /\ load_calls' = load_calls \cup {grp}
                            /\ \/ \* self.global_data.load raises: break
                                  /\ data_ok' = FALSE
                                  /\ pc' = "join"
                                  /\ UNCHANGED <<grp, ar, pr, skip, exc>>
                               \/ /\ skip' = skp
                                  /\ ar' = NextArea(areas, skp, 0)
                                  /\ pc' = "area"
                                  /\ UNCHANGED <<grp, pr, data_ok, exc>>
    /\ UNCHANGED <<cvars, enqueued, projected, params, reloaded, last_msg,
                   wvars, loop, msg, nmsgs, only_once, previous_pass,
                   retried, global_data, spc, pre_attempt, runs, gave_up,
                   prev_id, ran_ids, dup_of_prev, dup_of_any>>

\* a run in which a failed projection ends the group
PArea_Break ==
    /\ pc = "area"
    /\ LET area == Groups[grp].areas[ar]
           n == NextArea(Groups[grp].areas, skip, ar)
           continue == IF n = 0 THEN AfterGroup
                       ELSE /\ ar' = n
                            /\ UNCHANGED <<grp, pc, pr, skip, unloads>>
       IN \E gcov \in Coverages :
            IF do_generic_coverage /\ ~generic_covers(area.min_coverage, gcov)
            THEN /\ continue
                 /\ UNCHANGED <<params, projected>>
            ELSE /\ projected' = projected \cup {<<grp, ar>>}
                 /\ \/ /\ AfterGroup
                       /\ UNCHANGED params
                    \/ \* draw_images: params = self.get_parameters(area)
                       /\ params' = <<grp, ar, 0>>
                       /\ IF Len(area.products) = 0
                          THEN continue
                          ELSE /\ pr' = 1
                               /\ pc' = "product"
                               /\ UNCHANGED <<grp, ar, skip, unloads>>
    /\ UNCHANGED <<cvars, enqueued, reloaded, last_msg, wvars, loop, msg,
                   nmsgs, only_once, previous_pass, retried, global_data,
                   data_ok, spc, pre_attempt, runs, gave_up, exc, prev_id,
                   ran_ids, dup_of_prev, dup_of_any, do_generic_coverage,
                   excluded, load_calls>>

\* lines 624-660: the area ar is projected, unless the generic coverage
\* test is on and rejects it
PArea ==
    /\ pc = "area"
    /\ LET area == Groups[grp].areas[ar]
           n == NextArea(Groups[grp].areas, skip, ar)
           continue == IF n = 0 THEN AfterGroup
                       ELSE /\ ar' = n
                            /\ UNCHANGED <<grp, pc, pr, skip, unloads>>
       IN \E gcov \in Coverages :
            IF do_generic_coverage /\ ~generic_covers(area.min_coverage, gcov)
            THEN /\ continue
                 /\ UNCHANGED <<params, projected>>
            ELSE /\ projected' = projected \cup {<<grp, ar>>}
                 /\ \/ \* project raises ValueError or AreaNotFound: continue
                       /\ continue
                       /\ UNCHANGED params
                    \/ \* draw_images: params = self.get_parameters(area)
                       /\ params' = <<grp, ar, 0>>
                       /\ IF Len(area.products) = 0
                          THEN continue
                          ELSE /\ pr' = 1
                               /\ pc' = "product"
                               /\ UNCHANGED <<grp, ar, skip, unloads>>
    /\ UNCHANGED <<cvars, enqueued, reloaded, last_msg, wvars, loop, msg,
                   nmsgs, only_once, previous_pass, retried, global_data,
                   data_ok, spc, pre_attempt, runs, gave_up, exc, prev_id,
                   ran_ids, dup_of_prev, dup_of_any, do_generic_coverage,
                   excluded, load_calls>>

\* check_satellite(config), for a product without valid_satellite
check_satellite(platform, product) == platform \notin product.invalid_satellite

\* draw_images: the product pr of the area: written to the queue, or
\* skipped by check_satellite; after the last one, the next area
PProduct ==
    /\ pc = "product"
    /\ LET products == Groups[grp].areas[ar].products
           n == NextArea(Groups[grp].areas, skip, ar)
       IN /\ params' = <<grp, ar, pr>>
          /\ IF check_satellite(msg.platform_name, products[pr])
             THEN /\ write(<<grp, ar, pr>>, products[pr].item, params')
                  /\ enqueued' = enqueued \cup {<<grp, ar, pr>>}
             ELSE UNCHANGED <<prod_queue, unfinished, enqueued>>
          /\ IF pr < Len(products)
             THEN /\ pr' = pr + 1
                  /\ UNCHANGED <<grp, ar, pc, skip, unloads>>
             ELSE IF n = 0 THEN AfterGroup
             ELSE /\ ar' = n
                  /\ pc' = "area"
                  /\ pr' = 1
                  /\ UNCHANGED <<grp, skip, unloads>>
    /\ UNCHANGED <<cvars, projected, load_calls, excluded,
                   do_generic_coverage, reloaded, last_msg, wrest, wloop,
                   loop, msg, nmsgs, only_once, previous_pass, retried,
                   global_data, data_ok, spc, pre_attempt, runs, gave_up,
                   exc, prev_id, ran_ids, dup_of_prev, dup_of_any>>

\* a wait for the queue to be empty, in the place of the join
PJoin_QueueEmpty ==
    /\ pc = "join"
    /\ prod_queue = <<>>
    /\ pc' = "release"
    /\ excluded' = {}
    /\ load_calls' = {}
    /\ projected' = {}
    /\ unloads' = 0
    /\ UNCHANGED <<cvars, enqueued, do_generic_coverage, params, reloaded,
                   last_msg, wvars, loop, msg, nmsgs, only_once,
                   previous_pass, retried, global_data, data_ok, grp, ar, pr,
                   skip, spc, pre_attempt, runs, gave_up, exc, prev_id,
                   ran_ids, dup_of_prev, dup_of_any>>

\* self.writer.prod_queue.join().  The history of the run is not needed
\* after it.
PJoin ==
    /\ pc = "join"
    /\ unfinished = 0
    /\ pc' = "release"
    /\ excluded' = {}
    /\ load_calls' = {}
    /\ projected' = {}
    /\ unloads' = 0
    /\ UNCHANGED <<cvars, enqueued, do_generic_coverage, params, reloaded,
                   last_msg, wvars, loop, msg, nmsgs, only_once,
                   previous_pass, retried, global_data, data_ok, grp, ar, pr,
                   skip, spc, pre_attempt, runs, gave_up, exc, prev_id,
                   ran_ids, dup_of_prev, dup_of_any>>

\* self.release_memory()
release_memory ==
    /\ pc = "release"
    /\ global_data' = NoScene
    /\ pc' = "end"
    /\ UNCHANGED <<cvars, enqueued, unloads, projected, load_calls, excluded,
                   do_generic_coverage, params, reloaded, last_msg, wvars,
                   loop, msg, nmsgs, only_once, previous_pass, retried,
                   data_ok, grp, ar, pr, skip, spc, pre_attempt, runs,
                   gave_up, exc, prev_id, ran_ids, dup_of_prev, dup_of_any>>

\* a run_single that gives up at the first IOError
PRunEnd_NoRetry ==
    /\ pc = "end"
    /\ IF data_ok
       THEN /\ pc' = "loop"
            /\ UNCHANGED <<retried, previous_pass, gave_up>>
       ELSE /\ previous_pass' = prev_pass
            /\ gave_up' = TRUE
            /\ pc' = "loop"
            /\ UNCHANGED retried
    /\ UNCHANGED <<cvars, enqueued, unloads, projected, load_calls, excluded,
                   do_generic_coverage, params, reloaded, last_msg, wvars,
                   loop, msg, nmsgs, only_once, global_data, data_ok, grp,
                   ar, pr, skip, spc, pre_attempt, runs, exc, prev_id,
                   ran_ids, dup_of_prev, dup_of_any>>

\* lines 681-690 and the retry loop of run_single, lines 1390-1406
PRunEnd ==
    /\ pc = "end"
    /\ IF data_ok
       THEN /\ pc' = "loop"
            /\ UNCHANGED <<retried, previous_pass, gave_up>>
       ELSE IF retried
       THEN /\ previous_pass' = prev_pass
            /\ gave_up' = TRUE
            /\ pc' = "loop"
            /\ UNCHANGED retried
       ELSE /\ retried' = TRUE
            /\ pc' = "run"
            /\ UNCHANGED <<previous_pass, gave_up>>
    /\ UNCHANGED <<cvars, enqueued, unloads, projected, load_calls, excluded,
                   do_generic_coverage, params, reloaded, last_msg, wvars,
                   loop, msg, nmsgs, only_once, global_data, data_ok, grp,
                   ar, pr, skip, spc, pre_attempt, runs, exc, prev_id,
                   ran_ids, dup_of_prev, dup_of_any>>

\* finally: self.shutdown(), that is cleanup()
PShutdown ==
    /\ pc = "finally"
    /\ pc' = "done"
    /\ loop' = FALSE
    /\ wloop' = IF loop THEN FALSE ELSE wloop
    /\ UNCHANGED <<cvars, enqueued, unloads, projected, load_calls, excluded,
                   do_generic_coverage, params, reloaded, last_msg,
                   prod_queue, unfinished, wrest, msg, nmsgs, only_once,
                   previous_pass, retried, global_data, data_ok, grp, ar, pr,
                   skip, spc, pre_attempt, runs, gave_up, exc, prev_id,
                   ran_ids, dup_of_prev, dup_of_any>>

\* Trollduction.stop() called from another thread: cleanup() up to
\* self._loop = False ...
XStopBegin ==
    /\ spc = "idle"
    /\ spc' = IF loop THEN "stopping" ELSE "stopped"
    /\ loop' = FALSE
    /\ UNCHANGED <<cvars, enqueued, unloads, projected, load_calls, excluded,
                   do_generic_coverage, params, reloaded, last_msg, wvars,
                   pc, msg, nmsgs, only_once, previous_pass, retried,
                   global_data, data_ok, grp, ar, pr, skip, pre_attempt,
                   runs, gave_up, exc, prev_id, ran_ids, dup_of_prev,
                   dup_of_any>>

\* ... and then self.data_processor.stop(), that is DataWriter.stop()
XStopWriter ==
    /\ spc = "stopping"
    /\ spc' = "stopped"
    /\ wloop' = FALSE
    /\ UNCHANGED <<cvars, enqueued, unloads, projected, load_calls, excluded,
                   do_generic_coverage, params, reloaded, last_msg,
                   prod_queue, unfinished, wrest, loop, pc, msg, nmsgs,
                   only_once, previous_pass, retried, global_data, data_ok,
                   grp, ar, pr, skip, pre_attempt, runs, gave_up, exc,
                   prev_id, ran_ids, dup_of_prev, dup_of_any>>

Producer(max) ==
    PCheckLoop \/ PEmpty \/ PRecv(max) \/ PRunStart \/ PDump \/ PGroup
       \/ PArea \/ PProduct \/ PJoin \/ release_memory \/ PRunEnd \/ PShutdown

\* the producer's variables before the first message
PIdle ==
    /\ msg = NoMsg
    /\ nmsgs = 0
    /\ previous_pass = [platform_name |-> None, start_time |-> None]
    /\ retried = FALSE
    /\ global_data = NoScene
    /\ data_ok = TRUE
    /\ grp = 1
    /\ ar = 1
    /\ pr = 1
    /\ skip = {}
    /\ spc = "idle"
    /\ pre_attempt = [platform_name |-> None, start_time |-> None]
    /\ runs = 0
    /\ gave_up = FALSE
    /\ exc = FALSE
    /\ prev_id = NoId
    /\ ran_ids = {}
    /\ dup_of_prev = FALSE
    /\ dup_of_any = FALSE
    /\ last_msg = NoMsg
    /\ reloaded = FALSE
    /\ params = NoParams
    /\ do_generic_coverage = FALSE
    /\ excluded = {}
    /\ load_calls = {}
    /\ projected = {}
    /\ unloads = 0
    /\ enqueued = {}

(***************************************************************************)
(* SpecW: the writer thread draining batches put on prod_queue             *)
(***************************************************************************)
\* the file_items lists of the queued batches: one batch or two, with at
\* most MaxSpecs items in all
ItemLists(n) == UNION {[1..k -> Items] : k \in 1..n}

QueuesW ==
    {<<l>> : l \in ItemLists(MaxSpecs)} \cup
    UNION {{<<l1, l2>> : l2 \in ItemLists(MaxSpecs - Len(l1))} :
              l1 \in ItemLists(MaxSpecs - 1)}

InitW ==
    /\ \E q \in QueuesW :
          prod_queue = [i \in DOMAIN q |->
                           [obj |-> <<i, 0, 0>>, items |-> q[i],
                            params |-> params_copy(<<i, 0, 0>>)]]
    /\ unfinished = Len(prod_queue)
    /\ wloop = TRUE
    /\ wpc = "loop"
    /\ w_obj = <<0, 0, 0>>
    /\ w_items = <<>>
    /\ w_groups = EmptyGroups
    /\ w_copies = <<>>
    /\ w_fformat = ""
    /\ saved = NoPath
    /\ uid = NoUid
    /\ \E old \in SUBSET ({OldDir} \X Texts) :
          /\ Cardinality(old) <= 1
          /\ fs = [p \in Paths |-> IF p \in old THEN OldContent ELSE NoFile]
    /\ tmpfiles = 0
    /\ published = <<>>
    /\ owed = 0
    /\ save_calls = 0
    /\ link_calls = 0
    /\ placed = {}
    /\ io_failed = FALSE
    /\ aborted = FALSE
    /\ PIdle
    /\ pc = "off"
    /\ loop = FALSE
    /\ only_once = FALSE
    /\ cq = NoQuery
    /\ ca = NoAnswer

NextW == WCheckLoop \/ WEmpty \/ WGet \/ WNextGroup \/ WSave \/ WLink
            \/ WTaskDone

SpecW == InitW /\ [][NextW]_vars

(***************************************************************************)
(* Spec: run_single, the writer thread and a caller of stop()              *)
(***************************************************************************)
Init ==
    /\ prod_queue = <<>>
    /\ unfinished = 0
    /\ wloop = TRUE
    /\ wpc = "loop"
    /\ w_obj = <<0, 0, 0>>
    /\ w_items = <<>>
    /\ w_groups = EmptyGroups
    /\ w_copies = <<>>
    /\ w_fformat = ""
    /\ saved = NoPath
    /\ uid = NoUid
    /\ fs = [p \in Paths |-> NoFile]
    /\ tmpfiles = 0
    /\ published = <<>>
    /\ owed = 0
    /\ save_calls = 0
    /\ link_calls = 0
    /\ placed = {}
    /\ io_failed = FALSE
    /\ aborted = FALSE
    /\ PIdle
    /\ pc = "loop"
    /\ loop = TRUE
    /\ only_once \in BOOLEAN
    /\ cq = NoQuery
    /\ ca = NoAnswer

\* batches made by DataWriter.write have one item: the writer never reaches
\* the link_or_copy branch (WLink) here
WriterOne == WCheckLoop \/ WEmpty \/ WGet \/ WNextGroup \/ WSave \/ WTaskDone

Next == Producer(MaxStopMsgs) \/ PInterrupt \/ XStopBegin \/ XStopWriter
           \/ WriterOne

Spec == Init /\ [][Next]_vars

(***************************************************************************)
(* SpecSeq: run_single on a sequence of messages, with nobody calling stop *)
(***************************************************************************)
NextSeq == Producer(MaxMsgs) \/ WriterOne

SpecSeq == Init /\ [][NextSeq]_vars

(***************************************************************************)
(* FairSpec: Spec with both threads scheduled fairly.  Nothing obliges a   *)
(* message, an interrupt or a call of stop() to come.                      *)
(***************************************************************************)
ProducerSteps ==
    PCheckLoop \/ PRunStart \/ PDump \/ PGroup \/ PArea \/ PProduct \/ PJoin
       \/ release_memory \/ PRunEnd \/ PShutdown

FairSpec == Spec /\ WF_vars(WriterOne) /\ WF_vars(ProducerSteps)
                 /\ WF_vars(XStopWriter)

(***************************************************************************)
(* SpecCov: covers() called on an area at two thresholds                   *)
(***************************************************************************)
\* no thread is running: the state a single call is made in
NoThreads ==
    /\ prod_queue = <<>>
    /\ unfinished = 0
    /\ wloop = TRUE
    /\ wpc = "loop"
    /\ w_obj = <<0, 0, 0>>
    /\ w_items = <<>>
    /\ w_groups = EmptyGroups
    /\ w_copies = <<>>
    /\ w_fformat = ""
    /\ saved = NoPath
    /\ uid = NoUid
    /\ fs = [p \in Paths |-> NoFile]
    /\ tmpfiles = 0
    /\ published = <<>>
    /\ owed = 0
    /\ save_calls = 0
    /\ link_calls = 0
    /\ placed = {}
    /\ io_failed = FALSE
    /\ aborted = FALSE
    /\ PIdle
    /\ pc = "off"
    /\ loop = FALSE
    /\ only_once = FALSE

InitCov ==
    /\ NoThreads
    /\ cq \in CovQueries
    /\ ca = NoAnswer

NextCov == CoversCall

SpecCov == InitCov /\ [][NextCov]_vars

(***************************************************************************)
(* SpecMode: the mode of the files the writer creates, for every umask     *)
(***************************************************************************)
InitMode ==
    /\ NoThreads
    /\ cq \in ModeQueries
    /\ ca = NoAnswer

NextMode == ModeCall

SpecMode == InitMode /\ [][NextMode]_vars

(***************************************************************************)
(* SpecReq: get_req_channels on every list of products                     *)
(***************************************************************************)
InitReq ==
    /\ NoThreads
    /\ cq \in ReqQueries
    /\ ca = NoAnswer

NextReq == ReqCall

SpecReq == InitReq /\ [][NextReq]_vars

(***************************************************************************)
(* SpecSat: check_satellite on every product node                          *)
(***************************************************************************)
InitSat ==
    /\ NoThreads
    /\ cq \in SatQueries
    /\ ca = NoAnswer

NextSat == SatCall

SpecSat == InitSat /\ [][NextSat]_vars

(***************************************************************************)
(* SpecPoly: get_polygons_positions on every mask and frequency            *)
(***************************************************************************)
InitPoly ==
    /\ NoThreads
    /\ cq \in PolyQueries
    /\ ca = NoAnswer

NextPoly == PolyCall

SpecPoly == InitPoly /\ [][NextPoly]_vars

(***************************************************************************)
(* Properties                                                              *)
(***************************************************************************)
\* the positions inside DataProcessor.run
RunPcs == {"run", "dump", "group", "area", "product", "join", "release",
           "end"}

\* the writer holds a batch it has not marked task_done
Writing == wpc \in {"copies", "finally"}

\* C1 (barrier): whenever DataProcessor.run drops global_data, the queue is
\* empty and the writer holds no batch: every item enqueued during the run
\* has been marked task_done.
C1_Barrier ==
    [][(global_data # NoScene /\ global_data' = NoScene)
         => (prod_queue = <<>> /\ owed = 0 /\ ~Writing)]_vars

\* a run that had an item written has released the scene
C1_Witness ==
    /\ pc = "end"
    /\ global_data = NoScene
    /\ fs[<<"d1", "a.png">>] # NoFile

\* C2 as claimed: in at-most-once mode DataProcessor.run is never invoked
\* for a message whose (platform_name, start_time) is that of an earlier
\* message that was run, whatever was received in between.
C2_Original == (only_once /\ dup_of_any) => pc \notin RunPcs

\* C2 amended: in at-most-once mode DataProcessor.run is not invoked for a
\* message that has the (platform_name, start_time) of the accepted message
\* received just before it.
C2_Consecutive == (only_once /\ dup_of_prev) => pc \notin RunPcs

\* the second of two consecutive submissions has been skipped, the first
\* one having been run
C2_Witness ==
    /\ only_once
    /\ dup_of_prev
    /\ pc = "loop"
    /\ Id(msg) \in ran_ids
    /\ runs = 0
    /\ fs[<<"d1", "a.png">>] # NoFile

\* C3 (retry bound): DataProcessor.run is invoked at most twice for a
\* message; when run_single gives up on a message, run has been invoked
\* exactly twice for it and the loop is at its top, ready for the next
\* message, with no exception propagating.
C3_RetryBound ==
    /\ runs <= 2
    /\ gave_up => (runs = 2 /\ pc = "loop" /\ loop /\ ~exc)
    /\ (pc \in RunPcs /\ retried) => runs >= 1

\* both attempts at a message failed and the loop is ready for the next
C3_Witness == gave_up /\ runs = 2 /\ pc = "loop" /\ nmsgs < MaxMsgs

\* C4 as claimed (rollback): once both attempts have failed, _previous_pass
\* holds the values it had before the message was received.
C4_Rollback == gave_up => previous_pass = pre_attempt

\* C5 as claimed: with nobody calling stop(), no message makes run_single
\* leave its loop.
C5_LoopSurvives == pc \notin {"finally", "done"}

\* C6: once the load of a group has failed, run is nowhere but at the join,
\* at release_memory or at its end (no dump, group, area or product step);
\* and when run is about to raise IOError the queue has been drained and
\* global_data released.
C6_LoadFailure ==
    /\ (pc \in RunPcs /\ ~data_ok) => pc \in {"run", "join", "release", "end"}
    /\ (pc = "run" /\ ~data_ok) => retried
    /\ (pc = "end" /\ ~data_ok)
         => (global_data = NoScene /\ prod_queue = <<>> /\ owed = 0 /\ ~Writing)

\* the load of the first group failed after an item had been written
C6_Witness ==
    /\ pc = "end"
    /\ ~data_ok
    /\ grp = 1
    /\ fs[<<"d1", "a.png">>] # NoFile

\* C7 as claimed: under fair scheduling every queued item is eventually
\* marked task_done, so that the join returns.
C7_Drains == (unfinished > 0) ~> (unfinished = 0)

\* C8: the writer owes a task_done exactly while it holds a batch, so that
\* each dequeued batch is marked once; unfinished_tasks counts the queued
\* batches and the one held; after the except clause the thread is at the
\* finally, with the remaining items untouched; the thread leaves its loop
\* only when stopped.
C8_TaskDoneOnce ==
    /\ owed \in {0, 1}
    /\ (owed = 1) <=> Writing
    /\ unfinished = Len(prod_queue) + owed
    /\ aborted => wpc = "finally"
    /\ wpc = "exit" => ~wloop

\* a batch was aborted with items left, and another batch is queued
C8_Witness ==
    /\ aborted
    /\ Len(w_copies) > 1
    /\ prod_queue # <<>>

\* the format an item resolves to
FormatOf(item) == IF item.format = "" THEN Ext(item.text) ELSE item.format

\* the items have N distinct destinations
DistinctDests(items) ==
    \A i, j \in DOMAIN items : i # j => Fname(items[i]) # Fname(items[j])

\* one obj.save, N-1 link_or_copy, and every destination holds the rendering
OneRendering(items, f) ==
    /\ save_calls = 1
    /\ link_calls = Len(items) - 1
    /\ \A i \in DOMAIN items : fs[Fname(items[i])] = Rendering(w_obj, f)

C10_AnnouncedIffPlaced ==
    wpc = "finally"
    => /\ \A i \in DOMAIN published : published[i].uri \in placed
       /\ \A d \in placed :
            Cardinality({i \in DOMAIN published : published[i].uri = d}) = 1

\* C11: when obj.save has failed twice for a spec (the step of the save
\* branch that leaves its temporary file behind), save was called exactly
\* twice, no file was put in place and no message sent, no exception ended
\* the batch, and the thread goes on with the next spec of the category (or
\* the next category), still with nothing saved.
C11_SaveFailure ==
    [][(wpc = "copies" /\ w_copies # <<>> /\ saved = NoPath
          /\ tmpfiles' = tmpfiles + 1)
        => (/\ save_calls' = save_calls + 2
            /\ fs' = fs
            /\ placed' = placed
            /\ published' = published
            /\ ~aborted'
            /\ saved' = NoPath
            /\ w_copies' = Tail(w_copies)
            /\ w_groups' = w_groups
            /\ wpc' = AfterCopy)]_vars

\* of three specs of one category the first failed twice, the second was
\* saved and the third linked, both being announced
C11_Witness ==
    /\ wpc = "finally"
    /\ ~aborted
    /\ Len(w_items) = 3
    /\ \A i \in DOMAIN w_items : FormatOf(w_items[i]) = FormatOf(w_items[1])
    /\ tmpfiles = 1
    /\ save_calls = 3
    /\ link_calls = 1
    /\ Cardinality(placed) = 2
    /\ Len(published) = 2

C13_Monotone ==
    (ca # NoAnswer /\ cq.m1 < cq.m2 /\ ca[1] = "False") => ca[2] = "False"

\* an area excluded at a threshold and at a higher one
C13_Witness ==
    /\ ca # NoAnswer
    /\ cq.m1 < cq.m2
    /\ ca[1] = "False"
    /\ ca[2] = "False"

\* C14 as claimed: covers() returns True for every area whenever the
\* overpass is None or min_coverage is 0, whatever the coverage is.
C14_OptIn ==
    (ca # NoAnswer /\ (cq.overpass = None \/ cq.m1 = 0)) => ca[1] = "True"

\* the message is of another type or for another instrument
Filtered(m) == m.type \notin {"file", "collection"} \/ ~m.sensor_ok

\* the message has the identity _previous_pass held when it was received,
\* in at-most-once mode
Duplicate(m) ==
    /\ only_once
    /\ HasId(m)
    /\ pre_attempt.platform_name = m.platform_name
    /\ pre_attempt.start_time = m.start_time

\* C19: a message that is filtered out, or that repeats _previous_pass in
\* at-most-once mode, leaves _previous_pass as it was, does not make the
\* product configuration be read again and does not start
\* DataProcessor.run.
C19_NoSideEffects ==
    (last_msg # NoMsg /\ (Filtered(last_msg) \/ Duplicate(last_msg)))
    => /\ previous_pass = pre_attempt
       /\ ~reloaded
       /\ runs = 0
       /\ pc \notin RunPcs

\* a second message was skipped as already processed
C19_Witness ==
    /\ last_msg # NoMsg
    /\ ~Filtered(last_msg)
    /\ Duplicate(last_msg)
    /\ nmsgs = 2
    /\ pc = "loop"

\* the parameters a queue entry gives to the writer that dequeues it now
QueuedParams(entry) ==
    IF entry.params.own THEN entry.params.val ELSE params

\* C20: DataWriter.write can always be taken by the producer that has
\* reached it (it does not wait for the writer or for room in the queue);
\* a step that adds to the queue adds exactly one entry, at the end; and
\* every queued entry still has the parameters it was enqueued with (those
\* of the node its artifact was made for), whatever the producer did to
\* its params since.
C20_WriteCopies ==
    /\ [](pc = "dump" => ENABLED PDump)
    /\ [](pc = "product" => ENABLED PProduct)
    /\ [](\A i \in DOMAIN prod_queue :
            QueuedParams(prod_queue[i]) = prod_queue[i].obj)
    /\ [][Len(prod_queue') > Len(prod_queue)
            => (/\ Len(prod_queue') = Len(prod_queue) + 1
                /\ unfinished' = unfinished + 1
                /\ SubSeq(prod_queue', 1, Len(prod_queue)) = prod_queue)]_vars

\* two entries are queued and the producer has gone on to another node
C20_Witness ==
    /\ Len(prod_queue) >= 2
    /\ params # prod_queue[1].obj
    /\ params # prod_queue[2].obj
    /\ pc = "product"

\* the number of entries of the queue made for the group g
QueuedFor(q, g) == Cardinality({i \in DOMAIN q : q[i].obj[1] = g})

\* every area of the group g is skipped for its coverage or has no product
SkipGroup(g) ==
    \A a \in DOMAIN Groups[g].areas :
        \/ <<g, a>> \in excluded
        \/ Groups[g].areas[a].products = <<>>

\* C15: when every area of a group is skipped for insufficient coverage
\* or the areas that are not skipped have no product, load is not called
\* for the group, no area of it is projected and nothing is put on the
\* queue for it; an area skipped for insufficient coverage is never
\* projected.
C15_SkippedGroup ==
    /\ [](\A g \in DOMAIN Groups :
            SkipGroup(g) => /\ g \notin load_calls
                            /\ \A a \in DOMAIN Groups[g].areas :
                                  <<g, a>> \notin projected)
    /\ [](excluded \cap projected = {})
    /\ [][\A g \in DOMAIN Groups :
            SkipGroup(g)' => QueuedFor(prod_queue', g) <= QueuedFor(prod_queue, g)]_vars

\* the first group was skipped for the coverage of its first area, and in
\* the second group one area was skipped and the other one projected
C15_Witness ==
    /\ SkipGroup(1)
    /\ <<1, 1>> \in excluded
    /\ <<2, 2>> \in excluded
    /\ <<2, 1>> \in projected
    /\ pc = "join"

\* C16: when the scene has no overpass model and the area sets
\* min_coverage > 0, the coverage decision for the area is made by
\* generic_covers before the projection: in the area loop the generic
\* test is on for such an area.
C16_GenericDecides ==
    (/\ pc = "area"
     /\ global_data.present
     /\ global_data.overpass = None
     /\ Groups[grp].areas[ar].min_coverage > 0) => do_generic_coverage

\* the artifact made of global_data by the top-level dump is on the queue
\* or with the writer, before its task_done
DumpPending ==
    \/ \E i \in DOMAIN prod_queue : prod_queue[i].obj = <<0, 0, 1>>
    \/ w_obj = <<0, 0, 1>>

\* C17: between the enqueuing of an artifact built on a scene and the
\* writer's task_done for it, the producer does not unload that scene:
\* no step unloads global_data while the artifact of the dump is pending.
C17_NoUnloadWhilePending ==
    [][unloads' > unloads => ~DumpPending]_vars

\* C18: prod_queue is the only mutable state shared between the producer
\* thread and the writer thread: a step of the producer thread changes no
\* field the writer reads other than the queue and its count of
\* unfinished tasks.
C18_QueueOnly ==
    [][pc' # pc => UNCHANGED <<wloop, wpc, wrest>>]_vars

\* C21: after DataWriter.stop() the worker eventually leaves its loop; a
\* batch in progress is not aborted: the only way out of the writing of a
\* batch is its task_done, and the worker exits with no batch owed.
C21_StopExits ==
    /\ (~wloop) ~> (wpc = "exit")
    /\ [](wpc = "exit" => (owed = 0 /\ w_obj = <<0, 0, 0>>))
    /\ [][(Writing /\ ~Writing') =>
             (wpc' = "loop" /\ owed' = owed - 1
                 /\ unfinished' = unfinished - 1)]_vars

\* stop() was called while a batch is being written
C21_Witness ==
    /\ ~wloop
    /\ wpc = "copies"
    /\ owed = 1

\* C22: whenever run_single has returned or propagated an exception,
\* shutdown has happened: Trollduction._loop is False and the writer's
\* loop flag is False.
C22_ShutdownDone ==
    pc = "done" => (~loop /\ ~wloop)

\* C23: for every umask in 0..0o777 the mode the writer gives to the files
\* it creates is 0o666 & ~umask.
C23_Mode ==
    (ca # NoAnswer /\ cq \in ModeQueries) =>
        ca[1] = BitAnd(Mode666, 511 - cq.umask)

\* C24: when the coverage of an area cannot be computed from the overpass
\* (AttributeError), the area is not skipped and the group is flagged for
\* the generic coverage check.
C24_EvaluationFailure ==
    (/\ ca # NoAnswer
     /\ cq \in CovQueries
     /\ cq.defined
     /\ cq.attr_err
     /\ cq.overpass # None
     /\ cq.m1 > 0) => (ca[1] # "False" /\ flags_generic_coverage(ca[1]))

\* C25: the top-level dump entry is processed before any group, and a
\* failed load for it is only logged: the run goes on to the first group
\* with the data still marked good and no exception pending.
C25_DumpFailure ==
    /\ [](pc = "dump" => (load_calls = {} /\ projected = {}))
    /\ [][(pc = "dump" /\ pc' # pc) =>
            (/\ pc' = "group"
             /\ grp' = 1
             /\ data_ok'
             /\ ~exc')]_vars

\* the load for the dump entry failed (no parameters were made, nothing
\* was queued) and the run is at its first group
C25_Witness ==
    /\ pc = "group"
    /\ grp = 1
    /\ params = NoParams
    /\ prod_queue = <<>>
    /\ data_ok

\* global_data.project raised ValueError or AreaNotFound for the area ar:
\* project was called and no parameters were made for the area
ProjectFailed ==
    /\ pc = "area"
    /\ projected' # projected
    /\ params' = params

\* C26: when the projection of an area fails with ValueError or
\* AreaNotFound, nothing is queued for the area, the next area of the
\* group (or the next group) is processed, and the message is not marked
\* as failed; products are drawn only for an area that was projected.
C26_ProjectFailure ==
    /\ [][ProjectFailed =>
            LET n == NextArea(Groups[grp].areas, skip, ar)
            IN /\ prod_queue' = prod_queue
               /\ data_ok' = data_ok
               /\ ~exc'
               /\ IF n # 0
                  THEN pc' = "area" /\ grp' = grp /\ ar' = n
                  ELSE grp' = grp + 1
                       /\ pc' = (IF grp = Len(Groups) THEN "join"
                                 ELSE "group")]_vars
    /\ [](pc = "product" => (params[1] = grp /\ params[2] = ar))

\* the projection of the first area of group 1 failed and the run is at
\* the second area of the group
C26_Witness ==
    /\ pc = "area"
    /\ grp = 1
    /\ ar = 2
    /\ <<1, 1>> \in projected
    /\ params[1] # 1

\* C27: a product whose composite id is not recognised is logged and
\* skipped by get_req_channels: the call raises nothing and the channels
\* of the other products are still collected.
C27_UnknownIdSkipped ==
    (ca # NoAnswer /\ cq \in ReqQueries) =>
        /\ ca[1].exc = ""
        /\ (\A i \in DOMAIN cq.products : cq.products[i] # "dump") =>
              ca[1].reqs = {i \in DOMAIN cq.products :
                               cq.products[i] = "known"}

\* C28: check_satellite returns False for a product whose valid_satellite
\* list does not contain the platform or whose invalid_satellite list
\* contains it, and True otherwise; it raises nothing.
C28_SatelliteGate ==
    (ca # NoAnswer /\ cq \in SatQueries) =>
        LET c == cq.config
            out == \/ /\ "valid_satellite" \in c.keys
                      /\ cq.platform \notin c.valid_satellite
                   \/ /\ "invalid_satellite" \in c.keys
                      /\ cq.platform \in c.invalid_satellite
        IN ca[1] = (IF out THEN "False" ELSE "True")

\* C29: an area whose computed coverage equals min_coverage exactly (with
\* min_coverage > 0) is kept by covers() and by generic_covers().
C29_TieIncluded ==
    (/\ ca # NoAnswer
     /\ cq \in CovQueries
     /\ cq.defined
     /\ ~cq.attr_err
     /\ cq.overpass # None
     /\ cq.m1 > 0
     /\ cq.coverage = cq.m1) =>
        (ca[1] = "True" /\ generic_covers(cq.m1, cq.coverage))

\* the maximal runs of consecutive rows with a valid pixel, as pairs
\* (first row, last row)
Runs(mask) ==
    {r \in (DOMAIN mask) \X (DOMAIN mask) :
        /\ r[1] <= r[2]
        /\ \A l \in r[1] .. r[2] : mask[l] # {}
        /\ (r[1] = 1 \/ mask[r[1] - 1] = {})
        /\ (r[2] = Len(mask) \/ mask[r[2] + 1] = {})}

\* the leftmost and the rightmost valid pixel of the row
Corners(mask, line) ==
    LET indices == nonzero(mask[line])
    IN {<<line, indices[1]>>, <<line, indices[Len(indices)]>>}

\* C30: for every mask and every frequency >= 1 get_polygons_positions
\* returns one polygon per maximal run of consecutive rows with a valid
\* pixel, in order, and each polygon has among its vertices the leftmost
\* and the rightmost valid pixel of the first and of the last row of its
\* run.
C30_Polygons ==
    (ca # NoAnswer /\ cq \in PolyQueries) =>
        LET polygons == ca[1]
            all == Runs(cq.mask)
        IN /\ Len(polygons) = Cardinality(all)
           /\ \A r \in all :
                LET k == Cardinality({q \in all : q[1] <= r[1]})
                    vertices == {polygons[k][i] : i \in DOMAIN polygons[k]}
                IN Corners(cq.mask, r[1]) \cup Corners(cq.mask, r[2])
                      \subseteq vertices

\* C30 for frequency 1 only
C30_Frequency1 ==
    (ca # NoAnswer /\ cq \in PolyQueries /\ cq.frequency = 1) => C30_Polygons

\* the (platform_name, start_time) pair of a message; None for a field
\* the message lacks
PassOf(m) ==
    [platform_name |-> IF m.platform_name = Missing THEN None
                       ELSE m.platform_name,
     start_time |-> IF m.start_time = Missing THEN None ELSE m.start_time]

\* C31: _previous_pass is always the initial (None, None) or the
\* (platform_name, start_time) pair of one single message: never the
\* platform_name of one message with the start_time of another.
C31_PairOfOneMessage ==
    \/ previous_pass = [platform_name |-> None, start_time |-> None]
    \/ \E m \in Messages : previous_pass = PassOf(m)

\* C32: for one message each (area, product) artifact is put on the queue
\* at most once, also when the message is retried: no step enqueues a
\* product that was enqueued before for the message in hand.
C32_EnqueuedOnce ==
    [][Len(prod_queue') > Len(prod_queue) =>
          prod_queue'[Len(prod_queue')].obj \notin enqueued]_vars

\* C33: when the writer has finished a batch, no temporary file made by
\* mkstemp for the batch is left in a destination directory.
C33_NoTempLeft ==
    wpc = "finally" => tmpfiles = 0

\* production order of the artifacts of a run: the dump <<0, 0, 1>>, then
\* by group, area and product
Before(o1, o2) ==
    \/ o1[1] < o2[1]
    \/ o1[1] = o2[1] /\ o1[2] < o2[2]
    \/ o1[1] = o2[1] /\ o1[2] = o2[2] /\ o1[3] < o2[3]

\* C34: the writer takes the batches in the order they were enqueued, one
\* at a time: the queue holds the artifacts in production order behind the
\* batch being written, a batch is taken from the head of the queue only
\* when no other batch is owed its task_done, and a put goes to the tail.
C34_Fifo ==
    /\ [](\A i, j \in DOMAIN prod_queue :
             i < j => Before(prod_queue[i].obj, prod_queue[j].obj))
    /\ [](w_obj # <<0, 0, 0>> =>
             \A i \in DOMAIN prod_queue : Before(w_obj, prod_queue[i].obj))
    /\ [](owed <= 1)
    /\ [][w_obj' # w_obj /\ w_obj' # <<0, 0, 0>> =>
             (/\ owed = 0
              /\ w_obj = <<0, 0, 0>>
              /\ w_obj' = Head(prod_queue).obj
              /\ prod_queue' = Tail(prod_queue))]_vars
    /\ [][Len(prod_queue') > Len(prod_queue) =>
             prod_queue = SubSeq(prod_queue', 1, Len(prod_queue))]_vars

\* the writer is on the dump while two products of the first group wait
\* behind it in the queue
C34_Witness ==
    /\ w_obj = <<0, 0, 1>>
    /\ Len(prod_queue) >= 2
    /\ prod_queue[1].obj = <<1, 1, 1>>

C36_OneSpec ==
    /\ \A i \in DOMAIN prod_queue : Len(prod_queue[i].items) = 1
    /\ Len(w_items) <= 1
    /\ Len(w_copies) <= 1
    /\ save_calls <= 2
    /\ link_calls = 0
    /\ ~ENABLED WLink

\* the writer has saved the one item of a batch made for a product, at the
\* second call of obj.save
C36_Witness ==
    /\ wpc = "finally"
    /\ w_obj[1] = 1
    /\ Len(w_items) = 1
    /\ save_calls = 2
    /\ saved # NoPath

=============================================================================
